---- MODULE Spec2Model ----
(***************************************************************************)
(* Model of the timesheet application (src/timesheet.app.py): the SQLite   *)
(* table `timesheet` and the seven storage functions over it, and the      *)
(* Streamlit script `main` (password check, login form, three views).      *)
(*                                                                         *)
(* Text values are kept as sequences of byte codes where their order       *)
(* matters (SQLite compares TEXT bytewise): a work_date is the text that   *)
(* strftime("%Y-%m-%d") produces.  Hours are REAL values; the model draws  *)
(* them from a small set of whole numbers.                                 *)
(***************************************************************************)
EXTENDS Integers, Sequences, FiniteSets, TLC

VARIABLES db, env, session, pc, screen, last

vars == <<db, env, session, pc, screen, last>>

(***************************************************************************)
(* Bounds of the model.                                                    *)
(***************************************************************************)
\* how many of the calendar dates of DateList the storage specification uses
NumDates == 3
\* how many of them the date picker of the application specification offers
NumAppDates == 1
\* hours values are 0..MaxHours
MaxHours == 1

(***************************************************************************)
(* Dates and text.                                                         *)
(***************************************************************************)
\* calendar dates <<year, month, day>> a user can pick
DateList ==
  << <<2024, 1, 10>>, <<2024, 2, 10>>, <<2024, 1, 5>>, <<2023, 12, 31>>,
     <<2024, 12, 1>>, <<2025, 1, 5>> >>

PickDates(n) == {DateList[i] : i \in 1..(IF n < Len(DateList) THEN n ELSE Len(DateList))}

Dates == PickDates(NumDates)

AppDates == PickDates(NumAppDates)

Hours == 0..MaxHours

\* the byte of a decimal digit
Digit(n) == 48 + n

\* "%Y-%m-%d": four-digit year, two-digit month and day, joined by '-' (byte 45)
strftime_Ymd(date) ==
  LET y == date[1]
      m == date[2]
      d == date[3]
  IN << Digit(y \div 1000), Digit((y \div 100) % 10), Digit((y \div 10) % 10), Digit(y % 10),
        45, Digit(m \div 10), Digit(m % 10),
        45, Digit(d \div 10), Digit(d % 10) >>

\* datetime.strptime(date_str, "%Y-%m-%d") on a text of that form
strptime_Ymd(date_str) ==
  LET v(i) == date_str[i] - 48
  IN << 1000 * v(1) + 100 * v(2) + 10 * v(3) + v(4), 10 * v(6) + v(7), 10 * v(9) + v(10) >>

MonthNames ==
  << "January", "February", "March", "April", "May", "June", "July", "August",
     "September", "October", "November", "December" >>

\* "%B": the full month name (the C locale; the program never sets another)
strftime_B(date) == MonthNames[date[2]]

\* the bytes of a month name, as SQLite's BINARY collation compares them
Bytes(name) ==
  CASE name = "January"   -> <<74, 97, 110, 117, 97, 114, 121>>
    [] name = "February"  -> <<70, 101, 98, 114, 117, 97, 114, 121>>
    [] name = "March"     -> <<77, 97, 114, 99, 104>>
    [] name = "April"     -> <<65, 112, 114, 105, 108>>
    [] name = "May"       -> <<77, 97, 121>>
    [] name = "June"      -> <<74, 117, 110, 101>>
    [] name = "July"      -> <<74, 117, 108, 121>>
    [] name = "August"    -> <<65, 117, 103, 117, 115, 116>>
    [] name = "September" -> <<83, 101, 112, 116, 101, 109, 98, 101, 114>>
    [] name = "October"   -> <<79, 99, 116, 111, 98, 101, 114>>
    [] name = "November"  -> <<78, 111, 118, 101, 109, 98, 101, 114>>
    [] name = "December"  -> <<68, 101, 99, 101, 109, 98, 101, 114>>

\* bytewise (memcmp) order of two texts; a proper prefix is smaller
RECURSIVE LexLess(_, _)
LexLess(a, b) ==
  IF b = <<>> THEN FALSE
  ELSE IF a = <<>> THEN TRUE
  ELSE IF Head(a) # Head(b) THEN Head(a) < Head(b)
  ELSE LexLess(Tail(a), Tail(b))

(***************************************************************************)
(* The table and the storage functions.                                    *)
(* db.exists: the table has been created; db.rows: its rows; db.seq: the   *)
(* largest id AUTOINCREMENT has handed out.                                *)
(***************************************************************************)
EmptyDb == [exists |-> FALSE, rows |-> {}, seq |-> 0]

\* CREATE TABLE IF NOT EXISTS
create_table(d) == [d EXCEPT !.exists = TRUE]

\* the rows a WHERE work_date = ? selects
RowsOf(d, work_date) == {r \in d.rows : r.work_date = work_date}

\* the first row of a set in rowid order
FirstRow(rs) == CHOOSE r \in rs : \A q \in rs : r.id <= q.id

\* faulty variant: a plain INSERT, every call stores a row under a fresh id
add_data_insert_only(d, work_date, hours_worked, month_name) ==
  [d EXCEPT !.rows = d.rows \cup {[id |-> d.seq + 1, work_date |-> work_date,
                                   hours_worked |-> hours_worked, month_name |-> month_name]},
            !.seq = d.seq + 1]

\* faulty variant: INSERT OR IGNORE, a date that has a row keeps it
add_data_ignore(d, work_date, hours_worked, month_name) ==
  IF RowsOf(d, work_date) # {} THEN d
  ELSE [d EXCEPT !.rows = d.rows \cup {[id |-> d.seq + 1, work_date |-> work_date,
                                        hours_worked |-> hours_worked,
                                        month_name |-> month_name]},
                 !.seq = d.seq + 1]

\* faulty variant: the id subquery has no WHERE and yields the table's first id
add_data_first_id(d, work_date, hours_worked, month_name) ==
  LET newid == IF d.rows = {} THEN d.seq + 1 ELSE FirstRow(d.rows).id
      gone  == {r \in d.rows : r.id = newid \/ r.work_date = work_date}
      row   == [id |-> newid, work_date |-> work_date,
                hours_worked |-> hours_worked, month_name |-> month_name]
  IN [d EXCEPT !.rows = (d.rows \ gone) \cup {row},
               !.seq = IF newid > d.seq THEN newid ELSE d.seq]

\* INSERT OR REPLACE with id = (SELECT id ... WHERE work_date = ?): a NULL id
\* takes the next AUTOINCREMENT value; rows that conflict on the primary key
\* or on UNIQUE(work_date) are removed before the new row is stored
add_data(d, work_date, hours_worked, month_name) ==
  LET sel   == RowsOf(d, work_date)
      newid == IF sel = {} THEN d.seq + 1 ELSE FirstRow(sel).id
      gone  == {r \in d.rows : r.id = newid \/ r.work_date = work_date}
      row   == [id |-> newid, work_date |-> work_date,
                hours_worked |-> hours_worked, month_name |-> month_name]
  IN [d EXCEPT !.rows = (d.rows \ gone) \cup {row},
               !.seq = IF newid > d.seq THEN newid ELSE d.seq]

\* faulty variant: the date is parsed as "%Y-%d-%m", day and month swapped
update_hours_for_date_dm(d, date_str, new_hours) ==
  LET month_name == MonthNames[strptime_Ymd(date_str)[3]]
  IN [d EXCEPT !.rows =
        {IF r.work_date = date_str
           THEN [r EXCEPT !.hours_worked = new_hours, !.month_name = month_name]
           ELSE r : r \in d.rows}]

\* faulty variant: a date without a row gets one
update_hours_for_date_upsert(d, date_str, new_hours) ==
  IF RowsOf(d, date_str) = {}
    THEN [d EXCEPT !.rows = d.rows \cup {[id |-> d.seq + 1, work_date |-> date_str,
                                          hours_worked |-> new_hours,
                                          month_name |-> strftime_B(strptime_Ymd(date_str))]},
                   !.seq = d.seq + 1]
    ELSE [d EXCEPT !.rows =
            {IF r.work_date = date_str THEN [r EXCEPT !.hours_worked = new_hours] ELSE r :
               r \in d.rows}]

\* UPDATE ... SET hours_worked = ?, month_name = ? WHERE work_date = ?
update_hours_for_date(d, date_str, new_hours) ==
  LET month_name == strftime_B(strptime_Ymd(date_str))
  IN [d EXCEPT !.rows =
        {IF r.work_date = date_str
           THEN [r EXCEPT !.hours_worked = new_hours, !.month_name = month_name]
           ELSE r : r \in d.rows}]

\* ORDER BY month_name over a set of names
RECURSIVE OrderNames(_)
OrderNames(S) ==
  IF S = {} THEN <<>>
  ELSE LET m == CHOOSE x \in S : \A y \in S : ~LexLess(Bytes(y), Bytes(x))
       IN <<m>> \o OrderNames(S \ {m})

\* ORDER BY work_date over a set of texts
RECURSIVE OrderTexts(_)
OrderTexts(S) ==
  IF S = {} THEN <<>>
  ELSE LET m == CHOOSE x \in S : \A y \in S : ~LexLess(y, x)
       IN <<m>> \o OrderTexts(S \ {m})

\* ORDER BY work_date over rows (rows of equal work_date in rowid order)
RowBefore(a, b) ==
  LexLess(a.work_date, b.work_date) \/ (a.work_date = b.work_date /\ a.id < b.id)

RECURSIVE OrderRows(_)
OrderRows(S) ==
  IF S = {} THEN <<>>
  ELSE LET m == CHOOSE x \in S : \A y \in S : ~RowBefore(y, x)
       IN <<m>> \o OrderRows(S \ {m})

\* rows in rowid order, as a query without ORDER BY scans them
RECURSIVE OrderById(_)
OrderById(S) ==
  IF S = {} THEN <<>>
  ELSE LET m == FirstRow(S) IN <<m>> \o OrderById(S \ {m})

\* faulty variant: no ORDER BY, each month where its first row is scanned
get_months_unordered(d) ==
  LET firsts == {r \in d.rows : \A q \in d.rows : q.month_name = r.month_name => r.id <= q.id}
      rs == OrderById(firsts)
  IN [i \in 1..Len(rs) |-> rs[i].month_name]

\* faulty variant: no ORDER BY, the month's rows in rowid order
get_timesheet_by_month_unordered(d, month) ==
  LET rs == OrderById({r \in d.rows : r.month_name = month})
  IN [i \in 1..Len(rs) |-> <<rs[i].work_date, rs[i].hours_worked, rs[i].month_name>>]

\* SELECT DISTINCT month_name FROM timesheet ORDER BY month_name
get_months(d) == OrderNames({r.month_name : r \in d.rows})

\* SELECT work_date, hours_worked, month_name ... WHERE month_name = ? ORDER BY work_date
get_timesheet_by_month(d, month) ==
  LET rs == OrderRows({r \in d.rows : r.month_name = month})
  IN [i \in 1..Len(rs) |-> <<rs[i].work_date, rs[i].hours_worked, rs[i].month_name>>]

\* SELECT DISTINCT work_date FROM timesheet ORDER BY work_date
get_all_dates(d) == OrderTexts({r.work_date : r \in d.rows})

\* SELECT hours_worked ... WHERE work_date = ?; fetchone; 0.0 when there is no row
get_hours_for_date(d, date_str) ==
  LET rs == RowsOf(d, date_str)
  IN IF rs = {} THEN 0 ELSE FirstRow(rs).hours_worked

(***************************************************************************)
(* The Streamlit script.  env is TIMESHEET_PASSWORD (<<>> when unset,      *)
(* <<p>> when set to p).  session[s] is st.session_state of browser        *)
(* session s; has_keys is FALSE until the script has stored its keys.      *)
(* pc[s] is where the script run of session s stands: "idle" between runs, *)
(* or about to execute the UPDATE of an Edit Hours run (the runs of        *)
(* different sessions are threads of one process, and every statement      *)
(* commits on its own).  screen is what the last run rendered, the storage *)
(* functions it called, the write it committed, and the login form it was  *)
(* submitted with.                                                         *)
(***************************************************************************)
Sessions == {"A", "B"}

Usernames == {"raisediversity", "admin"}

Passwords == {"", "hunter2", "letmein"}

EnvValues == {<<>>} \cup {<<p>> : p \in Passwords}

NoSessionState ==
  [has_keys |-> FALSE, logged_in |-> FALSE, username |-> <<>>, has_edit_access |-> FALSE]

Idle == [at |-> "idle", date |-> <<>>, new_hours |-> 0, seen |-> 0]

NoWrite == <<>>

NoForm == <<>>

Blank == [s |-> "", shown |-> {}, calls |-> <<>>, write |-> NoWrite, form |-> NoForm]

NoCall == [op |-> "", date |-> <<>>, hours |-> 0, ret |-> <<>>]

\* faulty variant: only an unset variable counts as missing
NoPasswordNoneOnly == env = <<>>

\* `not password_env`: None and "" are both falsy
NoPassword == env = <<>> \/ env = <<"">>

\* STEP 2: the keys are stored on a session's first run that gets this far
InitSessionState(st) ==
  IF st.has_keys THEN st
  ELSE [has_keys |-> TRUE, logged_in |-> FALSE, username |-> <<>>, has_edit_access |-> FALSE]

\* faulty variant: `or` in place of `and`
ValidCredentialsOr(input_user, input_pass) ==
  input_user = "raisediversity" \/ <<input_pass>> = env

\* the condition of the login button's branch
ValidCredentials(input_user, input_pass) ==
  input_user = "raisediversity" /\ <<input_pass>> = env

\* the View Timesheet branch for a selected month (the months are not empty)
ViewShown(d, selected_month) ==
  IF get_timesheet_by_month(d, selected_month) # <<>>
    THEN {"title", "menu_edit", "view", "dataframe", "download"}
    ELSE {"title", "menu_edit", "view", "info_no_entries"}

\* what a run of the View Timesheet branch renders and calls
ViewScreen(s, d, selected_month) ==
  IF Len(get_months(d)) = 0
    THEN [s |-> s, shown |-> {"title", "menu_edit", "view", "info_no_data"},
          calls |-> <<"create_table", "get_months">>, write |-> NoWrite, form |-> NoForm]
    ELSE [s |-> s, shown |-> ViewShown(d, selected_month),
          calls |-> <<"create_table", "get_months", "get_timesheet_by_month">>,
          write |-> NoWrite, form |-> NoForm]

\* the month a selectbox shows: the user's choice when it is an option, else the first
SelectedMonth(d, choice) ==
  IF \E i \in 1..Len(get_months(d)) : get_months(d)[i] = choice
    THEN choice
    ELSE IF Len(get_months(d)) = 0 THEN "" ELSE get_months(d)[1]

\* what the month selectbox can hold: an option, or nothing yet
MonthOptions(d) == {get_months(d)[i] : i \in 1..Len(get_months(d))} \cup {""}

Init ==
  /\ db = EmptyDb
  /\ env \in EnvValues
  /\ session = [s \in Sessions |-> NoSessionState]
  /\ pc = [s \in Sessions |-> Idle]
  /\ screen = Blank
  /\ last = NoCall

\* the process is started again: the environment is read anew, the session
\* states and the running scripts are gone, timesheet.db is the same file
Restart(password) ==
  /\ env' = password
  /\ session' = [s \in Sessions |-> NoSessionState]
  /\ pc' = [s \in Sessions |-> Idle]
  /\ screen' = Blank
  /\ UNCHANGED <<db, last>>

\* STEP 1 fails: st.error and st.stop
NoPasswordRun(s) ==
  /\ pc[s].at = "idle"
  /\ NoPassword
  /\ screen' = [s |-> s, shown |-> {"error_no_password"}, calls |-> <<>>, write |-> NoWrite, form |-> NoForm]
  /\ UNCHANGED <<db, env, session, pc, last>>

\* STEP 3: the login form; a valid login sets the session state and reruns the
\* script, which renders the default menu choice, View Timesheet
LoginRun(s, input_user, input_pass, clicked) ==
  /\ pc[s].at = "idle"
  /\ ~NoPassword
  /\ ~InitSessionState(session[s]).logged_in
  /\ IF clicked /\ ValidCredentials(input_user, input_pass)
       THEN /\ session' = [session EXCEPT ![s] =
                 [has_keys |-> TRUE, logged_in |-> TRUE, username |-> <<input_user>>,
                  has_edit_access |-> TRUE]]
            /\ db' = create_table(db)
            /\ screen' = [ViewScreen(s, db', SelectedMonth(db', ""))
                             EXCEPT !.form = <<input_user, input_pass, clicked>>]
       ELSE /\ session' = [session EXCEPT ![s] = InitSessionState(session[s])]
            /\ db' = db
            /\ screen' = [s |-> s,
                          shown |-> IF clicked THEN {"login_form", "error_invalid_credentials"}
                                               ELSE {"login_form"},
                          calls |-> <<>>, write |-> NoWrite,
                          form |-> <<input_user, input_pass, clicked>>]
  /\ UNCHANGED <<env, pc, last>>

\* STEP 4, choice "View Timesheet"
ViewRun(s, choice) ==
  /\ pc[s].at = "idle"
  /\ ~NoPassword
  /\ InitSessionState(session[s]).logged_in
  /\ db' = create_table(db)
  /\ screen' = ViewScreen(s, db', SelectedMonth(db', choice))
  /\ UNCHANGED <<env, session, pc, last>>

\* STEP 4, choice "Log Hours"
LogRun(s, input_date, hours_worked, clicked) ==
  /\ pc[s].at = "idle"
  /\ ~NoPassword
  /\ InitSessionState(session[s]).logged_in
  /\ IF clicked
       THEN /\ db' = add_data(create_table(db), strftime_Ymd(input_date), hours_worked,
                              strftime_B(input_date))
            /\ screen' = [s |-> s, shown |-> {"title", "menu_edit", "log", "success_logged"},
                          calls |-> <<"create_table", "add_data">>,
                          write |-> <<"add_data", strftime_Ymd(input_date), hours_worked, FALSE>>,
                          form |-> NoForm]
       ELSE /\ db' = create_table(db)
            /\ screen' = [s |-> s, shown |-> {"title", "menu_edit", "log"},
                          calls |-> <<"create_table">>, write |-> NoWrite, form |-> NoForm]
  /\ UNCHANGED <<env, session, pc, last>>

\* STEP 4, choice "Edit Hours", up to the Update Hours button: the dates and
\* the current hours are read; a pressed button leaves the UPDATE to be executed
EditRun(s, selected_date, new_hours, clicked) ==
  /\ pc[s].at = "idle"
  /\ ~NoPassword
  /\ InitSessionState(session[s]).logged_in
  /\ session[s].has_edit_access
  /\ db' = create_table(db)
  /\ IF get_all_dates(db') = <<>>
       THEN /\ screen' = [s |-> s, shown |-> {"title", "menu_edit", "edit", "info_no_dates"},
                          calls |-> <<"create_table", "get_all_dates">>, write |-> NoWrite, form |-> NoForm]
            /\ pc' = pc
       ELSE /\ \E i \in 1..Len(get_all_dates(db')) : get_all_dates(db')[i] = selected_date
            /\ screen' = [s |-> s, shown |-> {"title", "menu_edit", "edit", "current_hours"},
                          calls |-> <<"create_table", "get_all_dates", "get_hours_for_date">>,
                          write |-> NoWrite, form |-> NoForm]
            /\ pc' = IF clicked
                       THEN [pc EXCEPT ![s] =
                               [at |-> "update", date |-> selected_date, new_hours |-> new_hours,
                                seen |-> get_hours_for_date(db', selected_date)]]
                       ELSE pc
  /\ UNCHANGED <<env, session, last>>

\* faulty variant: the UPDATE is skipped, and a conflict reported, when the hours
\* are no longer those the run read
EditUpdateIfUnchanged(s) ==
  /\ pc[s].at = "update"
  /\ LET stale == get_hours_for_date(db, pc[s].date) # pc[s].seen
     IN /\ db' = IF stale THEN db ELSE update_hours_for_date(db, pc[s].date, pc[s].new_hours)
        /\ screen' = [s |-> s,
                      shown |-> IF stale
                                  THEN {"title", "menu_edit", "edit", "current_hours", "error_conflict"}
                                  ELSE {"title", "menu_edit", "edit", "current_hours",
                                        "success_updated"},
                      calls |-> <<"create_table", "get_all_dates", "get_hours_for_date",
                                  "update_hours_for_date">>,
                      write |-> <<"update_hours_for_date", pc[s].date, pc[s].new_hours, stale>>,
                      form |-> NoForm]
  /\ pc' = [pc EXCEPT ![s] = Idle]
  /\ UNCHANGED <<env, session, last>>

\* the Update Hours button's branch: the UPDATE and the success message.
\* The write is marked stale when the hours are no longer those the run read.
EditUpdate(s) ==
  /\ pc[s].at = "update"
  /\ db' = update_hours_for_date(db, pc[s].date, pc[s].new_hours)
  /\ screen' = [s |-> s, shown |-> {"title", "menu_edit", "edit", "current_hours", "success_updated"},
                calls |-> <<"create_table", "get_all_dates", "get_hours_for_date",
                            "update_hours_for_date">>,
                write |-> <<"update_hours_for_date", pc[s].date, pc[s].new_hours,
                            get_hours_for_date(db, pc[s].date) # pc[s].seen>>,
                form |-> NoForm]
  /\ pc' = [pc EXCEPT ![s] = Idle]
  /\ UNCHANGED <<env, session, last>>

Next ==
  \/ \E password \in EnvValues : Restart(password)
  \/ \E s \in Sessions : NoPasswordRun(s)
  \/ \E s \in Sessions, u \in Usernames, p \in Passwords, clicked \in BOOLEAN :
       LoginRun(s, u, p, clicked)
  \/ \E s \in Sessions, m \in MonthOptions(db) : ViewRun(s, m)
  \/ \E s \in Sessions, date \in AppDates, h \in Hours, clicked \in BOOLEAN :
       LogRun(s, date, h, clicked)
  \/ \E s \in Sessions, date \in AppDates, h \in Hours, clicked \in BOOLEAN :
       EditRun(s, strftime_Ymd(date), h, clicked)
  \/ \E s \in Sessions : EditUpdate(s)

Spec == Init /\ [][Next]_vars

(***************************************************************************)
(* The storage layer on its own: the seven functions called in any order   *)
(* on a created table.  A statement on a table that does not exist raises  *)
(* and changes nothing, so the calls are enabled once the table exists     *)
(* (main creates it before every call).  last is the last call and what it *)
(* returned.                                                               *)
(***************************************************************************)
CreateTable ==
  /\ db' = create_table(db)
  /\ last' = [op |-> "create_table", date |-> <<>>, hours |-> 0, ret |-> <<>>]
  /\ UNCHANGED <<env, session, pc, screen>>

\* the Log Hours write: the date picker's date becomes work_date and month_name
UpsertEntry(input_date, hours_worked) ==
  /\ db.exists
  /\ db' = add_data(db, strftime_Ymd(input_date), hours_worked, strftime_B(input_date))
  /\ last' = [op |-> "add_data", date |-> strftime_Ymd(input_date), hours |-> hours_worked,
              ret |-> <<>>]
  /\ UNCHANGED <<env, session, pc, screen>>

SetHours(date_str, new_hours) ==
  /\ db.exists
  /\ db' = update_hours_for_date(db, date_str, new_hours)
  /\ last' = [op |-> "update_hours_for_date", date |-> date_str, hours |-> new_hours,
              ret |-> <<>>]
  /\ UNCHANGED <<env, session, pc, screen>>

GetHours(date_str) ==
  /\ db.exists
  /\ last' = [op |-> "get_hours_for_date", date |-> date_str, hours |-> 0,
              ret |-> <<get_hours_for_date(db, date_str)>>]
  /\ UNCHANGED <<db, env, session, pc, screen>>

ListDates ==
  /\ db.exists
  /\ last' = [op |-> "get_all_dates", date |-> <<>>, hours |-> 0, ret |-> get_all_dates(db)]
  /\ UNCHANGED <<db, env, session, pc, screen>>

ListMonths ==
  /\ db.exists
  /\ last' = [op |-> "get_months", date |-> <<>>, hours |-> 0, ret |-> get_months(db)]
  /\ UNCHANGED <<db, env, session, pc, screen>>

ListEntriesForMonth(month) ==
  /\ db.exists
  /\ last' = [op |-> "get_timesheet_by_month", date |-> <<>>, hours |-> 0,
              ret |-> get_timesheet_by_month(db, month)]
  /\ UNCHANGED <<db, env, session, pc, screen>>

\* the months a caller can ask for: the months of the dates, a month without entries and a name that is no month
QueryMonths == {strftime_B(date) : date \in Dates} \cup {"March", "Smarch"}

NextStore ==
  \/ CreateTable
  \/ \E date \in Dates, h \in Hours : UpsertEntry(date, h)
  \/ \E date \in Dates, h \in Hours : SetHours(strftime_Ymd(date), h)
  \/ \E date \in Dates : GetHours(strftime_Ymd(date))
  \/ ListDates
  \/ ListMonths
  \/ \E m \in QueryMonths : ListEntriesForMonth(m)

\* the storage functions do not read the environment: one value stands for all
InitStore == Init /\ env = <<"hunter2">>

SpecStore == InitStore /\ [][NextStore]_vars

(***************************************************************************)
(* Properties.                                                             *)
(***************************************************************************)
\* how often x occurs in a sequence
Count(seq, x) == Cardinality({i \in 1..Len(seq) : seq[i] = x})

\* the English name of the month a "YYYY-MM-DD" text names in its MM digits
EnglishMonth(work_date) == MonthNames[10 * (work_date[6] - 48) + (work_date[7] - 48)]

IsWrite(op) == op \in {"add_data", "update_hours_for_date"}

\* C1: the table holds at most one row per work_date; a write for a date that
\* has a row replaces it
AtMostOneRowPerDate ==
  \A r1, r2 \in db.rows : r1.work_date = r2.work_date => r1 = r2

\* an upsert has just replaced the row of a date that was stored before another one
W_ReplacedRow ==
  /\ last.op = "add_data"
  /\ Cardinality(db.rows) >= 2
  /\ \E r \in db.rows : r.work_date = last.date /\ r.id < db.seq

\* C2: right after upsert_entry(D, H), get_hours(D) is H and list_dates()
\* holds D exactly once, also when D was upserted before
UpsertThenGet ==
  last.op = "add_data" =>
    /\ get_hours_for_date(db, last.date) = last.hours
    /\ Count(get_all_dates(db), last.date) = 1

\* a repeated upsert to a date has just stored hours other than the default
W_RepeatedUpsert ==
  /\ last.op = "add_data"
  /\ last.hours # 0
  /\ \E r \in db.rows : r.work_date = last.date /\ r.id < db.seq

\* C3: every row's month_name is the English month name of its work_date
MonthMatchesDate ==
  \A r \in db.rows : r.month_name = EnglishMonth(r.work_date)

\* set_hours has just rewritten a row, and rows of two months are stored
W_SetHoursRewrote ==
  /\ last.op = "update_hours_for_date"
  /\ \E r \in db.rows : r.work_date = last.date /\ r.hours_worked = last.hours
  /\ Cardinality({r.month_name : r \in db.rows}) >= 2

\* the submitted login form is the fixed username with the environment's password
FormValid(form, password) ==
  form[1] = "raisediversity" /\ <<form[2]>> = password /\ form[3]

\* C4: a session leaves LoggedOut only by a login with the fixed username and
\* the environment's password, and is then logged in with edit access; any
\* other login leaves it LoggedOut and shows the error
LoginOnlyByCredentials ==
  [][\A s \in Sessions :
       /\ (~session[s].logged_in /\ session'[s].logged_in) =>
            /\ env' = env
            /\ screen'.s = s
            /\ screen'.form # NoForm
            /\ FormValid(screen'.form, env')
            /\ session'[s].has_edit_access
            /\ session'[s].username = <<"raisediversity">>
       /\ (~session[s].logged_in /\ screen'.s = s /\ screen'.form # NoForm
             /\ screen'.form[3] /\ ~FormValid(screen'.form, env')) =>
            /\ ~session'[s].logged_in
            /\ ~session'[s].has_edit_access
            /\ screen'.shown = {"login_form", "error_invalid_credentials"}
            /\ db' = db]_vars

\* a session has just logged in while the other one is still logged out
W_LoggedIn ==
  \E s \in Sessions :
    /\ session[s].logged_in /\ session[s].has_edit_access
    /\ screen.s = s /\ screen.form # NoForm
    /\ \E t \in Sessions : ~session[t].logged_in

\* TIMESHEET_PASSWORD is absent or empty
PasswordMissing == env \in {<<>>, <<"">>}

\* C5: without a password every run only shows the error: no login form, no
\* view, no storage call, and the session states and the store stay as they are
NoPasswordNoService ==
  [][(PasswordMissing' /\ screen'.s \in Sessions) =>
       /\ screen'.shown = {"error_no_password"}
       /\ screen'.calls = <<>>
       /\ screen'.write = NoWrite
       /\ session' = session
       /\ db' = db]_vars

\* a run has halted on the missing password over a store that holds rows
W_HaltedOnMissingPassword ==
  /\ PasswordMissing
  /\ screen.shown = {"error_no_password"}
  /\ db.rows # {}

\* C6: set_hours for a date without a row leaves the store as it is
SetHoursMissingIsNoOp ==
  [][(last'.op = "update_hours_for_date" /\ RowsOf(db, last'.date) = {}) => db' = db]_vars

\* set_hours has just been called for a date without a row, other rows exist
W_SetHoursMissing ==
  /\ last.op = "update_hours_for_date"
  /\ RowsOf(db, last.date) = {}
  /\ db.rows # {}

\* C7: list_months() is strictly increasing bytewise (sorted, no duplicates),
\* holds exactly the stored month names, and is empty on a store without rows
ListMonthsSortedDistinct ==
  LET ms == get_months(db)
  IN /\ \A i \in 1..(Len(ms) - 1) : LexLess(Bytes(ms[i]), Bytes(ms[i + 1]))
     /\ {ms[i] : i \in 1..Len(ms)} = {r.month_name : r \in db.rows}
     /\ (db.rows = {} => ms = <<>>)

\* list_months() has just returned February before January, stored the other way round
W_FebruaryBeforeJanuary ==
  /\ last.op = "get_months"
  /\ last.ret = <<"February", "January">>
  /\ \E r, q \in db.rows : r.month_name = "January" /\ q.month_name = "February" /\ r.id < q.id

\* the stored entries of the month M, as (work_date, hours_worked, month_name)
EntriesOfMonth(M) ==
  {<<r.work_date, r.hours_worked, r.month_name>> :
     r \in {q \in db.rows : EnglishMonth(q.work_date) = M}}

\* C8: list_entries_for_month(M) is in non-decreasing work_date order and holds
\* exactly the entries whose work_date lies in M, each once
ListEntriesForMonthExact ==
  \A M \in QueryMonths :
    LET es == get_timesheet_by_month(db, M)
    IN /\ \A i \in 1..(Len(es) - 1) : ~LexLess(es[i + 1][1], es[i][1])
       /\ {es[i] : i \in 1..Len(es)} = EntriesOfMonth(M)
       /\ Len(es) = Cardinality(EntriesOfMonth(M))
       /\ (EntriesOfMonth(M) = {} => es = <<>>)

\* a month's entries have just been listed, two of them stored latest date first,
\* beside an entry of another month
W_MonthListedOutOfInsertOrder ==
  /\ last.op = "get_timesheet_by_month"
  /\ Len(last.ret) = 2
  /\ \E r, q \in db.rows :
       /\ r.month_name = q.month_name /\ r.id < q.id /\ LexLess(q.work_date, r.work_date)
       /\ last.ret[1][1] = q.work_date
  /\ Cardinality(db.rows) >= 3

\* C9: no step removes a date's row; a write for a date leaves the rows of the
\* other dates as they are, and a read leaves all rows as they are
NoEntryDeleted ==
  [][/\ \A r \in db.rows : RowsOf(db', r.work_date) # {}
     /\ IsWrite(last'.op) =>
          {r \in db.rows : r.work_date # last'.date} = {r \in db'.rows : r.work_date # last'.date}
     /\ ~IsWrite(last'.op) => db'.rows = db.rows]_vars

\* set_hours has just changed a row's hours to a non-default value beside other rows
W_WriteBesideOtherRows ==
  /\ last.op = "update_hours_for_date"
  /\ last.hours # 0
  /\ RowsOf(db, last.date) # {}
  /\ Cardinality(db.rows) >= 2

\* C10: right after a session's write commits, the date's hours are that
\* write's value and the date has exactly one row, also when the write replaces
\* hours the session never read; the writer is shown success
LastWriteWins ==
  screen.write # NoWrite =>
    /\ get_hours_for_date(db, screen.write[2]) = screen.write[3]
    /\ Cardinality(RowsOf(db, screen.write[2])) = 1
    /\ screen.shown \cap {"success_logged", "success_updated"} # {}

\* a session's update has just replaced hours that another session wrote after
\* this one had read them, while that other session is in an edit of its own
W_StaleOverwrite ==
  /\ screen.write # NoWrite
  /\ screen.write[1] = "update_hours_for_date"
  /\ screen.write[4]
  /\ \E t \in Sessions : t # screen.s /\ pc[t].at = "update" /\ pc[t].date = screen.write[2]

====
